---- MODULE Spec2Model ----
(***************************************************************************)
(* Model of src/audit_logger.py: class AuditLogger, a hash-chained audit   *)
(* log kept in the PostgreSQL table audit_logs and reached through a       *)
(* psycopg2 connection pool.                                               *)
(*                                                                         *)
(* Each caller p runs log_change as the sequence of database round trips   *)
(* the code performs: take a connection (line 140), open the transaction   *)
(* (psycopg2 sends BEGIN before the first statement of line 144; that is   *)
(* the instant CURRENT_TIMESTAMP, the created_at default of line 61,       *)
(* reports for the whole transaction), read the tip and hash (144-162),    *)
(* INSERT (165-178), COMMIT (179-186).  Rows become visible to the other   *)
(* connections at COMMIT (READ COMMITTED, the server default).             *)
(***************************************************************************)
EXTENDS Integers, Sequences, FiniteSets, TLC

\* ------------------------------------------------------------------ bounds
NumProcs == 2        \* concurrent callers
MaxTx == 3           \* log_change transactions opened in one behaviour
MaxLimit == 2        \* largest limit given to get_resource_history
MaxTrack == 2         \* calls opened in one behaviour of SpecTrack
MaxTamper == 1       \* out-of-band edits of storage (SpecT only)

Procs == 1..NumProcs

\* ------------------------------------------------------- program constants
\* __init__(..., max_conn=10, ...), line 23: the pool's capacity.  Every
\* operation holds at most one connection, so with fewer than max_conn
\* callers getconn never finds the pool exhausted.
max_conn == 10

\* self.secret_key, line 36
secret_key == "development-key-change-in-production"

\* "genesis", lines 150 and 275.  A link is modelled as the triple
\* <<key, previous link, payload>>; genesis is a triple no hash equals.
GENESIS == <<"genesis", <<>>, <<>>>>

\* Python None and the SQL NULL it is stored as
None == "None"
\* the empty dict {}
EmptyDict == "{}"

\* ------------------------------------------------------------------ inputs
\* log_change(actor_id, action, resource_type, resource_id, old_val, new_val),
\* line 128
Call(actor, action, rtype, rid, old, new) ==
    [actor_id |-> actor, action |-> action, resource_type |-> rtype,
     resource_id |-> rid, old_val |-> old, new_val |-> new]

\* The calls a caller may make: the two appends of the scenario of spec
\* section 8, an append whose old and new state are the empty dict, and
\* appends that lack a required identifier.
Args ==
    { Call("u1", "CREATE", "INVOICE", "inv1", None, "{status:draft}"),
      Call("u1", "UPDATE", "INVOICE", "inv1", "{status:draft}", "{status:paid}"),
      Call("u2", "DELETE", "USER", "inv1", EmptyDict, EmptyDict),
      Call(None, "CREATE", "INVOICE", "inv1", None, "{status:draft}"),
      Call("u1", "CREATE", "INVOICE", None, None, "{status:draft}") }

\* the resources get_resource_history is asked about
Queries == {<<"INVOICE", "inv1">>, <<"USER", "inv1">>}

\* track_changes(actor_id, resource_type, resource_id), line 189, as it is
\* called: on the invoice, with and without an actor, and on a resource
\* type that has no table
TrackTargets == {<<"u1", "INVOICE", "inv1">>, <<None, "INVOICE", "inv1">>,
                 <<"u1", "USER", "inv1">>}

\* the states the code inside a tracked block gives the invoice
ResourceVals == {None, "{status:draft}", "{status:paid}"}

\* what an out-of-band edit writes into new_values
TamperVals == {"{status:void}"}

NoArgs == [actor_id |-> None, action |-> "CREATE", resource_type |-> "INVOICE",
           resource_id |-> "inv1", old_val |-> None, new_val |-> None]

VARIABLES
    store,          \* committed rows of audit_logs, in commit order
    clock,          \* the database clock: transactions opened so far
    conns,          \* connections checked out of self.pool
    pc,             \* per caller: position inside log_change
    args,           \* per caller: the arguments of the call in flight
    txStart,        \* per caller: CURRENT_TIMESTAMP of its open transaction
    previous_hash,  \* per caller: local previous_hash (line 150)
    current_hash,   \* per caller: local current_hash (line 162)
    result,         \* per caller: outcome of its last call
    ret,            \* what the auditor's last read operation returned
    tampered,       \* ids of the rows edited out of band
    resource,       \* the row of the tracked resource (None: no such row)
    tracked         \* per caller: its call was made by track_changes

vars == <<store, clock, conns, pc, args, txStart, previous_hash, current_hash,
          result, ret, tampered, resource, tracked>>

\* ----------------------------------------------------------- pure helpers
\* datetime.utcnow().isoformat(), line 157: a naive datetime prints no offset
IsoNaive(t) == <<t, "">>

\* ts.isoformat() of a TIMESTAMP WITH TIME ZONE column, line 285: psycopg2
\* returns an aware datetime, which prints its UTC offset
IsoAware(t) == <<t, "+00:00">>

\* str(actor_id), lines 154 and 282
Str(x) == x

\* f"{resource_type}:{resource_id}", lines 156 and 284
Resource(rtype, rid) == <<rtype, rid>>

\* json.dumps(data, sort_keys=True), line 125: the values in key order
\* action, actor, new, old, resource, timestamp
Dumps(data) ==
    <<data.action, data.actor, data.new, data.old, data.resource, data.timestamp>>

\* _compute_hash, lines 113-126: HMAC-SHA256 taken as collision free
ComputeHash(prev, data) == <<secret_key, prev, Dumps(data)>>

\* Json(v) if v else None, lines 172-173: a falsy value is stored as NULL
ToColumn(v) == IF v \in {None, EmptyDict} THEN None ELSE v

Rows(s) == {s[i] : i \in DOMAIN s}

RECURSIVE SortAsc(_)
\* ORDER BY created_at ASC, lines 263-268
SortAsc(S) ==
    IF S = {} THEN <<>>
    ELSE LET m == CHOOSE r \in S : \A q \in S : r.created_at <= q.created_at
         IN  <<m>> \o SortAsc(S \ {m})

Scan(s) == SortAsc(Rows(s))

Reverse(q) == [i \in 1..Len(q) |-> q[Len(q) + 1 - i]]

\* SELECT hash ... ORDER BY created_at DESC LIMIT 1, lines 144-150
Tip(s) ==
    IF s = <<>> THEN GENESIS ELSE Scan(s)[Len(s)].hash

\* log_data of log_change, lines 153-160
LogData(a, now) ==
    [actor |-> Str(a.actor_id), action |-> a.action,
     resource |-> Resource(a.resource_type, a.resource_id),
     timestamp |-> IsoNaive(now), old |-> a.old_val, new |-> a.new_val]

\* the row the INSERT of lines 165-176 writes for caller p
NewRow(p) ==
    [id |-> txStart[p], actor_id |-> args[p].actor_id, action |-> args[p].action,
     resource_type |-> args[p].resource_type, resource_id |-> args[p].resource_id,
     old_values |-> ToColumn(args[p].old_val), new_values |-> ToColumn(args[p].new_val),
     previous_hash |-> previous_hash[p], hash |-> current_hash[p],
     created_at |-> txStart[p]]

\* the auditor has called nothing yet
NoRet == [op |-> "none", valid |-> TRUE, breaks |-> <<>>, rows |-> <<>>]

\* ---------------------------------------------------------------- Init
Init ==
    /\ store = <<>>
    /\ clock = 0
    /\ conns = 0
    /\ pc = [p \in Procs |-> "idle"]
    /\ args = [p \in Procs |-> NoArgs]
    /\ txStart = [p \in Procs |-> 0]
    /\ previous_hash = [p \in Procs |-> GENESIS]
    /\ current_hash = [p \in Procs |-> GENESIS]
    /\ result = [p \in Procs |-> "none"]
    /\ ret = NoRet
    /\ tampered = {}
    /\ resource = None
    /\ tracked = [p \in Procs |-> FALSE]

\* _get_conn, lines 78-80: one more connection is checked out
GetConn(c) == c + 1

\* pool.putconn as it would be were the connection not handed back
ReturnConnLeak(c) == c

\* _return_conn, lines 82-84: the connection goes back to the pool
ReturnConn(c) == c - 1

InFlight == {p \in Procs : pc[p] # "idle"}
Opened == clock + Cardinality({p \in Procs : pc[p] \in {"conn", "block"}})

\* the locals of log_change go out of scope when it returns (line 186)
Return(p, outcome) ==
    /\ pc' = [pc EXCEPT ![p] = "idle"]
    /\ result' = [result EXCEPT ![p] = outcome]
    /\ args' = [args EXCEPT ![p] = NoArgs]
    /\ txStart' = [txStart EXCEPT ![p] = 0]
    /\ previous_hash' = [previous_hash EXCEPT ![p] = GENESIS]
    /\ current_hash' = [current_hash EXCEPT ![p] = GENESIS]
    /\ conns' = ReturnConn(conns)
    /\ tracked' = [tracked EXCEPT ![p] = FALSE]

\* ---------------------------------------------------------- log_change
\* line 140: conn = self._get_conn()
LogChangeCall(p, a) ==
    /\ pc[p] = "idle"
    /\ conns < max_conn
    /\ Opened < MaxTx
    /\ pc' = [pc EXCEPT ![p] = "conn"]
    /\ args' = [args EXCEPT ![p] = a]
    /\ result' = [result EXCEPT ![p] = "none"]
    /\ conns' = GetConn(conns)
    /\ UNCHANGED <<store, clock, txStart, previous_hash, current_hash, ret, tampered, resource, tracked>>

\* the transaction opens: created_at of whatever it inserts is fixed here
LogChangeBegin(p) ==
    /\ pc[p] = "conn"
    /\ clock' = clock + 1
    /\ txStart' = [txStart EXCEPT ![p] = clock + 1]
    /\ pc' = [pc EXCEPT ![p] = "begun"]
    /\ UNCHANGED <<store, conns, args, previous_hash, current_hash, result, ret, tampered, resource, tracked>>

\* lines 144-162: read the tip, build log_data, hash
LogChangeReadTip(p) ==
    /\ pc[p] = "begun"
    /\ previous_hash' = [previous_hash EXCEPT ![p] = Tip(store)]
    /\ current_hash' = [current_hash EXCEPT ![p] =
                            ComputeHash(Tip(store), LogData(args[p], clock))]
    /\ pc' = [pc EXCEPT ![p] = "hashed"]
    /\ UNCHANGED <<store, clock, conns, args, txStart, result, ret, tampered, resource, tracked>>

\* the table as it would be were resource_id declared without NOT NULL
NotNullViolationActorOnly(p) == args[p].actor_id = None

\* actor_id UUID NOT NULL, resource_id UUID NOT NULL (lines 53, 56)
NotNullViolation(p) == args[p].actor_id = None \/ args[p].resource_id = None

\* the table as it would be without the UNIQUE constraint on hash
UniqueViolationOff(p) == FALSE

\* hash TEXT UNIQUE NOT NULL (line 60), against the committed rows
UniqueViolation(p) == \E r \in Rows(store) : r.hash = current_hash[p]

\* an uncommitted row with the same hash makes the INSERT wait for its owner
UniqueWait(p) ==
    \E q \in Procs \ {p} : pc[q] = "inserted" /\ current_hash[q] = current_hash[p]

\* lines 165-178: the INSERT is accepted; the row is not yet visible
LogChangeInsert(p) ==
    /\ pc[p] = "hashed"
    /\ ~NotNullViolation(p)
    /\ ~UniqueViolation(p)
    /\ ~UniqueWait(p)
    /\ pc' = [pc EXCEPT ![p] = "inserted"]
    /\ UNCHANGED <<store, clock, conns, args, txStart, previous_hash, current_hash,
                   result, ret, tampered, resource, tracked>>

\* lines 165-176 raise an IntegrityError (NotNullViolation or
\* UniqueViolation); lines 182-186: rollback, re-raise
LogChangeInsertError(p) ==
    /\ pc[p] = "hashed"
    /\ NotNullViolation(p) \/ (UniqueViolation(p) /\ ~UniqueWait(p))
    /\ Return(p, IF NotNullViolation(p) THEN "NotNullViolation" ELSE "UniqueViolation")
    /\ UNCHANGED <<store, clock, ret, tampered, resource>>

\* LogChangeCommit as it would be were the INSERT an upsert keyed on
\* previous_hash: a row chained to the same link is overwritten in place
LogChangeCommitUpsert(p) ==
    /\ pc[p] = "inserted"
    /\ store' = IF \E i \in DOMAIN store : store[i].previous_hash = previous_hash[p]
                THEN [i \in DOMAIN store |->
                        IF store[i].previous_hash = previous_hash[p]
                        THEN NewRow(p) ELSE store[i]]
                ELSE Append(store, NewRow(p))
    /\ Return(p, "ok")
    /\ UNCHANGED <<clock, ret, tampered, resource>>

\* line 179: conn.commit() makes the row visible; 180, 186: return log_id
LogChangeCommit(p) ==
    /\ pc[p] = "inserted"
    /\ store' = Append(store, NewRow(p))
    /\ Return(p, "ok")
    /\ UNCHANGED <<clock, ret, tampered, resource>>

\* LogChangeAbort as it would be without the rollback of line 183, the
\* connection going back to the pool with its INSERT then committed
LogChangeAbortNoRollback(p) ==
    /\ pc[p] \in {"conn", "begun", "hashed", "inserted"}
    /\ store' = IF pc[p] = "inserted" THEN Append(store, NewRow(p)) ELSE store
    /\ Return(p, "OperationalError")
    /\ UNCHANGED <<clock, ret, tampered, resource>>

\* any statement of the try block raises (connection lost, cancelled):
\* lines 182-186 roll the transaction back and re-raise
LogChangeAbort(p) ==
    /\ pc[p] \in {"conn", "begun", "hashed", "inserted"}
    /\ Return(p, "OperationalError")
    /\ UNCHANGED <<store, clock, ret, tampered, resource>>

\* ------------------------------------------------ verify_chain_integrity
\* log_data of the verifier, lines 281-288
VerifyData(log) ==
    [actor |-> Str(log.actor_id), action |-> log.action,
     resource |-> Resource(log.resource_type, log.resource_id),
     timestamp |-> IF log.created_at # 0 THEN IsoAware(log.created_at) ELSE <<0, None>>,
     old |-> log.old_values, new |-> log.new_values]

\* line 291: the stored previous_hash column is what is hashed
ExpectedHash(log) == ComputeHash(log.previous_hash, VerifyData(log))

RECURSIVE VerifyLoopWrongFound(_, _, _, _)
\* the loop as it would be were 'found' filled from prev_hash
VerifyLoopWrongFound(logs, i, running, broken_links) ==
    IF i > Len(logs) THEN broken_links
    ELSE LET log == logs[i]
             expected_hash == ExpectedHash(log)
             broken == IF expected_hash # log.hash
                       THEN Append(broken_links,
                                   [id |-> log.id, expected |-> expected_hash,
                                    found |-> log.previous_hash])
                       ELSE broken_links
         IN  VerifyLoopWrongFound(logs, i + 1, log.hash, broken)

RECURSIVE VerifyLoop(_, _, _, _)
\* the loop of lines 277-300; running is the local previous_hash of line 275
VerifyLoop(logs, i, running, broken_links) ==
    IF i > Len(logs) THEN broken_links
    ELSE LET log == logs[i]
             expected_hash == ExpectedHash(log)
             broken == IF expected_hash # log.hash
                       THEN Append(broken_links,
                                   [id |-> log.id, expected |-> expected_hash,
                                    found |-> log.hash])
                       ELSE broken_links
         IN  VerifyLoop(logs, i + 1, log.hash, broken)

\* lines 269-302
VerifyChain(logs) ==
    IF logs = <<>> THEN [valid |-> TRUE, breaks |-> <<>>]
    ELSE LET broken_links == VerifyLoop(logs, 1, GENESIS, <<>>)
         IN  [valid |-> (Len(broken_links) = 0), breaks |-> broken_links]

\* verify_chain_integrity as it would be were a mismatch raised as an
\* exception instead of being collected
VerifyChainIntegrityRaising ==
    /\ conns < max_conn
    /\ ret' = IF VerifyChain(Scan(store)).valid
              THEN [op |-> "verify", valid |-> TRUE, breaks |-> <<>>, rows |-> <<>>]
              ELSE [op |-> "raise", valid |-> FALSE, breaks |-> <<>>, rows |-> <<>>]
    /\ conns' = ReturnConn(GetConn(conns))
    /\ UNCHANGED <<store, clock, pc, args, txStart, previous_hash, current_hash,
                   result, tampered, resource, tracked>>

\* verify_chain_integrity, lines 252-305
VerifyChainIntegrity ==
    /\ conns < max_conn
    /\ ret' = [op |-> "verify", valid |-> VerifyChain(Scan(store)).valid,
                breaks |-> VerifyChain(Scan(store)).breaks, rows |-> <<>>]
    /\ conns' = ReturnConn(GetConn(conns))
    /\ UNCHANGED <<store, clock, pc, args, txStart, previous_hash, current_hash,
                   result, tampered, resource, tracked>>

\* ------------------------------------------------- get_resource_history
Min(a, b) == IF a <= b THEN a ELSE b

\* the dict built from one fetched row, lines 338-345
HistoryRecord(row) ==
    [timestamp |-> row.created_at, action |-> row.action, actor |-> row.actor_id,
     old_values |-> row.old_values, new_values |-> row.new_values, hash |-> row.hash]

\* the WHERE clause as it would be with OR in place of AND
MatchesEither(row, rtype, rid) == row.resource_type = rtype \/ row.resource_id = rid

\* WHERE resource_type = %s AND resource_id = %s, line 331
Matches(row, rtype, rid) == row.resource_type = rtype /\ row.resource_id = rid

\* the SELECT of lines 322-334 and the loop of lines 336-346
ResourceHistory(s, rtype, rid, limit) ==
    LET desc == Reverse(Scan(s))
        hits == SelectSeq(desc, LAMBDA row : Matches(row, rtype, rid))
        kept == SubSeq(hits, 1, Min(limit, Len(hits)))
    IN  [i \in 1..Len(kept) |-> HistoryRecord(kept[i])]

\* get_resource_history, lines 307-348
GetResourceHistory(rtype, rid, limit) ==
    /\ conns < max_conn
    /\ ret' = [op |-> "history", valid |-> TRUE, breaks |-> <<>>,
                rows |-> ResourceHistory(store, rtype, rid, limit)]
    /\ conns' = ReturnConn(GetConn(conns))
    /\ UNCHANGED <<store, clock, pc, args, txStart, previous_hash, current_hash,
                   result, tampered, resource, tracked>>

\* ---------------------------------------------------------- track_changes
\* _get_current_state, lines 86-111: the row of the resource as JSON, None
\* when there is no such row, and None when the SELECT raises (here: no
\* table of that resource type)
GetCurrentState(rtype, rid) ==
    IF rtype = "INVOICE" /\ rid = "inv1" THEN resource ELSE None

\* lines 202-206: capture the state before, then hand control to the block
TrackEnter(p, actor, rtype, rid) ==
    /\ pc[p] = "idle"
    /\ conns < max_conn
    /\ Opened < MaxTx
    /\ pc' = [pc EXCEPT ![p] = "block"]
    /\ args' = [args EXCEPT ![p] =
                   Call(actor, "UPDATE", rtype, rid, GetCurrentState(rtype, rid), None)]
    /\ tracked' = [tracked EXCEPT ![p] = TRUE]
    /\ result' = [result EXCEPT ![p] = "none"]
    /\ conns' = ReturnConn(GetConn(conns))
    /\ UNCHANGED <<store, clock, txStart, previous_hash, current_hash, ret, tampered,
                   resource>>

\* the code of a tracked block changes the resource
BlockWrite(p, v) ==
    /\ pc[p] = "block"
    /\ v # resource
    /\ resource' = v
    /\ UNCHANGED <<store, clock, conns, pc, args, txStart, previous_hash, current_hash,
                   result, ret, tampered, tracked>>

\* the block raises: the exception leaves the generator at the yield of
\* line 206 and nothing after it runs
TrackRaise(p) ==
    /\ pc[p] = "block"
    /\ pc' = [pc EXCEPT ![p] = "idle"]
    /\ args' = [args EXCEPT ![p] = NoArgs]
    /\ tracked' = [tracked EXCEPT ![p] = FALSE]
    /\ result' = [result EXCEPT ![p] = "BlockError"]
    /\ UNCHANGED <<store, clock, conns, txStart, previous_hash, current_hash, ret,
                   tampered, resource>>

\* track_changes as it would be without the test of line 210
TrackExitAlways(p) ==
    /\ pc[p] = "block"
    /\ pc' = [pc EXCEPT ![p] = "conn"]
    /\ args' = [args EXCEPT ![p].new_val =
                   GetCurrentState(args[p].resource_type, args[p].resource_id)]
    /\ conns' = GetConn(ReturnConn(GetConn(conns)))
    /\ UNCHANGED <<store, clock, txStart, previous_hash, current_hash, ret,
                   tampered, resource, tracked, result>>

\* lines 208-218: the block returned; capture the state after and, if it
\* differs, call log_change (whose line 140 takes the connection)
TrackExit(p) ==
    /\ pc[p] = "block"
    /\ LET new_val == GetCurrentState(args[p].resource_type, args[p].resource_id)
       IN  IF args[p].old_val # new_val
           THEN /\ pc' = [pc EXCEPT ![p] = "conn"]
                /\ args' = [args EXCEPT ![p].new_val = new_val]
                /\ conns' = GetConn(ReturnConn(GetConn(conns)))
                /\ UNCHANGED <<tracked, result>>
           ELSE /\ pc' = [pc EXCEPT ![p] = "idle"]
                /\ args' = [args EXCEPT ![p] = NoArgs]
                /\ tracked' = [tracked EXCEPT ![p] = FALSE]
                /\ result' = [result EXCEPT ![p] = "nochange"]
                /\ conns' = ReturnConn(GetConn(conns))
    /\ UNCHANGED <<store, clock, txStart, previous_hash, current_hash, ret,
                   tampered, resource>>

\* --------------------------------------------------- the environment
\* somebody with write access to the table overwrites new_values of one
\* committed row and leaves its hash alone (spec section 8)
Tamper(i, v) ==
    /\ Cardinality(tampered) < MaxTamper
    /\ i \in DOMAIN store
    /\ v # store[i].new_values
    /\ store' = [store EXCEPT ![i].new_values = v]
    /\ tampered' = tampered \cup {store[i].id}
    /\ UNCHANGED <<clock, conns, pc, args, txStart, previous_hash, current_hash,
                   result, ret, resource, tracked>>

Next ==
    \/ \E p \in Procs, a \in Args : LogChangeCall(p, a)
    \/ \E p \in Procs : LogChangeBegin(p)
    \/ \E p \in Procs : LogChangeReadTip(p)
    \/ \E p \in Procs : LogChangeInsert(p)
    \/ \E p \in Procs : LogChangeInsertError(p)
    \/ \E p \in Procs : LogChangeCommit(p)
    \/ \E p \in Procs : LogChangeAbort(p)
    \/ VerifyChainIntegrity
    \/ \E q \in Queries, limit \in 1..MaxLimit : GetResourceHistory(q[1], q[2], limit)

Spec == Init /\ [][Next]_vars

\* the logger used directly and through track_changes blocks
NextTrack ==
    \/ \E p \in Procs, a \in Args : Opened < MaxTrack /\ LogChangeCall(p, a)
    \/ \E p \in Procs : LogChangeBegin(p)
    \/ \E p \in Procs : LogChangeReadTip(p)
    \/ \E p \in Procs : LogChangeInsert(p)
    \/ \E p \in Procs : LogChangeInsertError(p)
    \/ \E p \in Procs : LogChangeCommit(p)
    \/ \E p \in Procs : LogChangeAbort(p)
    \/ VerifyChainIntegrity
    \/ \E q \in Queries, limit \in 1..MaxLimit : GetResourceHistory(q[1], q[2], limit)
    \/ \E p \in Procs, t \in TrackTargets :
           Opened < MaxTrack /\ TrackEnter(p, t[1], t[2], t[3])
    \/ \E p \in Procs, v \in ResourceVals : BlockWrite(p, v)
    \/ \E p \in Procs : TrackRaise(p)
    \/ \E p \in Procs : TrackExit(p)

SpecTrack == Init /\ [][NextTrack]_vars

\* the logger together with an environment that edits storage behind its back
NextT ==
    \/ Next
    \/ \E i \in 1..MaxTx, v \in TamperVals : Tamper(i, v)

SpecT == Init /\ [][NextT]_vars

\* sequential use: a log_change starts only when no other call is in flight
NextSeq ==
    \/ \E p \in Procs, a \in Args : InFlight = {} /\ LogChangeCall(p, a)
    \/ \E p \in Procs : LogChangeBegin(p)
    \/ \E p \in Procs : LogChangeReadTip(p)
    \/ \E p \in Procs : LogChangeInsert(p)
    \/ \E p \in Procs : LogChangeInsertError(p)
    \/ \E p \in Procs : LogChangeCommit(p)
    \/ \E p \in Procs : LogChangeAbort(p)
    \/ VerifyChainIntegrity
    \/ \E q \in Queries, limit \in 1..MaxLimit : GetResourceHistory(q[1], q[2], limit)
    \/ \E i \in 1..MaxTx, v \in TamperVals : Tamper(i, v)

SpecSeq == Init /\ [][NextSeq]_vars

\* ======================================================================
\* The claims
\* ======================================================================
Errors == {"OperationalError", "NotNullViolation", "UniqueViolation"}

\* the value verify_chain_integrity would return on the present store
VerifyNow == VerifyChain(Scan(store))

\* C1 (fork prevention): no two committed entries carry the same
\* previous_hash, whatever the interleaving of concurrent log_change calls.
C1_NoFork ==
    \A i, j \in DOMAIN store :
        i # j => store[i].previous_hash # store[j].previous_hash

\* C2 (chain validity under concurrency): once every log_change started on
\* the empty chain has completed, the store holding one entry per call
\* (each of the clock transactions opened has committed),
\* verify_chain_integrity returns (True, []).
C2_ConcurrentChainValid ==
    (InFlight = {} /\ clock >= 1 /\ Len(store) = clock)
        => /\ VerifyNow.valid
           /\ VerifyNow.breaks = <<>>

\* C3 (predecessor link): every entry except the first in chain order has
\* previous_hash equal to the hash of the entry just before it.
C3_PredecessorLink ==
    LET logs == Scan(store)
    IN  \A i \in 2..Len(logs) : logs[i].previous_hash = logs[i - 1].hash

\* C4 (no false positives): after sequential log_change calls and no edit of
\* storage, verify_chain_integrity returns (True, []).
C4_NoFalsePositive ==
    tampered = {} => (VerifyNow.valid /\ VerifyNow.breaks = <<>>)

RunningLink(logs, i) == IF i = 1 THEN GENESIS ELSE logs[i - 1].hash

\* C6 (running-link rule): the expected link verify compares with an
\* entry's stored hash is the keyed hash of the running link (genesis, then
\* the stored hash of the entry scanned just before) and the entry's payload.
C6_RunningLinkRule ==
    LET logs == Scan(store)
    IN  \A i \in DOMAIN logs :
            ExpectedHash(logs[i]) = ComputeHash(RunningLink(logs, i), VerifyData(logs[i]))

\* C7 (genesis): the entry that is first in chain order has previous_hash
\* equal to "genesis".
C7_GenesisFirst ==
    store # <<>> => Scan(store)[1].previous_hash = GENESIS

\* C8 (all or nothing): a log_change that leaves with an error leaves the
\* store exactly as it was, and one that leaves otherwise reports success
\* and has added its one row; the error reaches the caller as the outcome.
C8_AllOrNothing ==
    [][\A p \in Procs :
          (pc[p] # "idle" /\ pc'[p] = "idle")
              => \/ result'[p] \in Errors /\ store' = store
                 \/ result'[p] = "ok" /\ pc[p] = "inserted"
                      /\ store' = Append(store, NewRow(p))]_vars

\* a call failed at its INSERT, after it had read a tip, on a non-empty store
C8_Witness ==
    \E p \in Procs : /\ result[p] \in {"NotNullViolation", "UniqueViolation"}
                     /\ pc[p] = "idle" /\ Len(store) >= 1

\* C9 (append-only): no step of log_change, verify_chain_integrity or
\* get_resource_history changes or removes a committed row; the store
\* changes only by a successful log_change adding its one row at the end,
\* and the read operations leave it as it is.
C9_AppendOnly ==
    [][/\ \A i \in DOMAIN store : i \in DOMAIN store' /\ store'[i] = store[i]
       /\ store' # store =>
              \E p \in Procs : /\ pc[p] = "inserted" /\ result'[p] = "ok"
                               /\ store' = Append(store, NewRow(p))
       /\ ret' # ret => store' = store]_vars

\* two rows are committed and get_resource_history has returned one of them
C9_Witness ==
    /\ Len(store) >= 2
    /\ ret.op = "history" /\ Len(ret.rows) = 1

\* C10 (retry on conflict): a log_change whose commit finds that the tip is
\* no longer the one it read discards that attempt instead of committing it.
C10_ConflictDiscards ==
    [][\A p \in Procs :
          (pc[p] = "inserted" /\ pc'[p] = "idle" /\ Tip(store) # previous_hash[p])
              => store' = store]_vars

\* C11 (link uniqueness): no two committed entries have the same hash, and
\* a log_change whose computed hash is that of a committed entry leaves its
\* INSERT with an error and without committing.
C11_LinkUnique ==
    [][/\ \A i, j \in DOMAIN store' : i # j => store'[i].hash # store'[j].hash
       /\ \A p \in Procs :
             (/\ pc[p] = "hashed" /\ pc'[p] # "hashed"
              /\ \E r \in Rows(store) : r.hash = current_hash[p])
                 => pc'[p] = "idle" /\ result'[p] \in Errors /\ store' = store]_vars

\* a call was refused by the UNIQUE constraint
C11_Witness ==
    \E p \in Procs : result[p] = "UniqueViolation" /\ pc[p] = "idle"

\* C12 (chain order is commit order): the ascending scan used by verify
\* lists the entries in the order they were committed, so a newly committed
\* entry comes last and the tip is the hash of the latest commit.
C12_CommitOrder ==
    /\ Scan(store) = store
    /\ store # <<>> => Tip(store) = store[Len(store)].hash

\* C13 (verify completes with findings as data): on every store, tampered
\* and forked ones included, the loop of verify_chain_integrity runs to its
\* end and yields a (valid, breaks) pair; what the auditor gets back is that
\* pair, never an exception, and every edited row is named in breaks.
C13_VerifyCompletes ==
    /\ ret.op \in {"none", "verify", "history"}
    /\ ret.valid \in BOOLEAN
    /\ VerifyNow.valid \in BOOLEAN
    /\ \A k \in tampered :
          \E i \in DOMAIN VerifyNow.breaks : VerifyNow.breaks[i].id = k

\* verify returned breaks on a store that holds a fork and an edited row
C13_Witness ==
    /\ ret.op = "verify" /\ ~ret.valid
    /\ tampered # {}
    /\ \E i \in DOMAIN ret.breaks : ret.breaks[i].id \in tampered
    /\ \E i, j \in DOMAIN store :
          i # j /\ store[i].previous_hash = store[j].previous_hash

\* what get_resource_history is specified to return for one question
HistoryAsSpecified(rows, rtype, rid, limit) ==
    LET hits == {r \in Rows(store) : r.resource_type = rtype /\ r.resource_id = rid}
        shown == {r \in hits : \E i \in DOMAIN rows : rows[i].hash = r.hash}
    IN  /\ Len(rows) = Min(limit, Cardinality(hits))
        /\ Cardinality(shown) = Len(rows)
        /\ \A i \in DOMAIN rows :
              \E r \in hits :
                  /\ rows[i].hash = r.hash /\ rows[i].timestamp = r.created_at
                  /\ rows[i].action = r.action /\ rows[i].actor = r.actor_id
                  /\ rows[i].old_values = r.old_values
                  /\ rows[i].new_values = r.new_values
        /\ \A i \in DOMAIN rows : \A k \in DOMAIN rows :
              i < k => rows[i].timestamp > rows[k].timestamp
        /\ \A r \in hits \ shown : \A i \in DOMAIN rows : r.created_at < rows[i].timestamp

\* C14 (history result): for every resource and limit asked,
\* get_resource_history returns exactly the committed entries whose
\* resource_type and resource_id both match, newest first by created_at,
\* cut to the first limit of them, and nothing else.
C14_HistoryResult ==
    \A q \in Queries \cup {<<"INVOICE", "inv2">>} : \A limit \in 1..MaxLimit :
        HistoryAsSpecified(ResourceHistory(store, q[1], q[2], limit), q[1], q[2], limit)

\* a history of one row was returned, cut short by the limit, from a store
\* that also holds an older entry of that resource and an entry of another
C14_Witness ==
    /\ ret.op = "history" /\ Len(ret.rows) = 1
    /\ \E r \in Rows(store) :
          /\ r.hash = ret.rows[1].hash
          /\ \E x \in Rows(store) :
                /\ x.resource_type = r.resource_type /\ x.resource_id = r.resource_id
                /\ x.created_at < r.created_at
          /\ \E x \in Rows(store) : x.resource_type # r.resource_type

\* C15 (validation): a log_change whose actor_id or resource_id is None
\* leaves with an error, commits no entry and leaves the tip as it was.
C15_Validation ==
    [][\A p \in Procs :
          (/\ pc[p] # "idle" /\ pc'[p] = "idle"
           /\ (args[p].actor_id = None \/ args[p].resource_id = None))
              => /\ result'[p] \in Errors
                 /\ store' = store
                 /\ Tip(store') = Tip(store)]_vars

\* a call without a required identifier was refused on a non-empty chain
C15_Witness ==
    \E p \in Procs : result[p] = "NotNullViolation" /\ pc[p] = "idle" /\ Len(store) >= 1

\* C16 (null versus empty round trip): the old_values and new_values
\* written to storage are the old and new that were hashed, for every
\* input, None and the empty dict included.
C16_StateRoundTrip ==
    \A r \in Rows(store) :
        /\ r.new_values = r.hash[3][3]
        /\ r.old_values = r.hash[3][4]

\* C17 (verify result shape): valid is True exactly when breaks is empty,
\* the empty log gives (True, []), and breaks holds at most one record per
\* stored entry, in ascending scan order, each with found = the entry's
\* stored hash.
C17_VerifyShape ==
    LET logs == Scan(store)
        v == VerifyNow
    IN  /\ v.valid = (v.breaks = <<>>)
        /\ store = <<>> => v = [valid |-> TRUE, breaks |-> <<>>]
        /\ ret.op = "verify" => ret.valid = (ret.breaks = <<>>)
        /\ \A i \in DOMAIN v.breaks :
              \E j \in DOMAIN logs :
                  logs[j].id = v.breaks[i].id /\ v.breaks[i].found = logs[j].hash
        /\ \A i \in DOMAIN v.breaks : \A k \in DOMAIN v.breaks :
              i < k => \E j1 \in DOMAIN logs : \E j2 \in DOMAIN logs :
                          /\ j1 < j2
                          /\ logs[j1].id = v.breaks[i].id
                          /\ logs[j2].id = v.breaks[k].id

\* verify returned two or more breaks
C17_Witness ==
    ret.op = "verify" /\ Len(ret.breaks) >= 2 /\ Len(store) >= 2

\* the positions of a caller that is inside log_change, between the
\* getconn of line 140 and the putconn of line 186
InLogChange == {"conn", "begun", "hashed", "inserted"}

\* C18 (store-handle release): the connections checked out of the pool are
\* exactly one for each caller inside log_change; a caller inside a tracked
\* block holds none, verify_chain_integrity, get_resource_history and
\* _get_current_state hold none once they returned, and so the count is
\* zero whenever no operation is in flight, after every success and every
\* exception.
C18_HandleRelease ==
    /\ conns = Cardinality({p \in Procs : pc[p] \in InLogChange})
    /\ conns <= Cardinality(InFlight)
    /\ (\A p \in Procs : pc[p] \in {"idle", "block"}) => conns = 0

\* nothing is in flight after a commit, a raised log_change, a tracked
\* block that logged nothing and a read of the auditor
C18_Witness ==
    /\ InFlight = {}
    /\ conns = 0
    /\ Len(store) >= 1
    /\ \E p \in Procs : result[p] \in Errors
    /\ \E p \in Procs : result[p] = "nochange"
    /\ ret.op # "none"

\* the entry a tracked call of caller p is to append
IsTrackedEntry(r, a) ==
    /\ r.action = "UPDATE"
    /\ r.actor_id = a.actor_id
    /\ r.resource_type = a.resource_type
    /\ r.resource_id = a.resource_id
    /\ r.old_values = a.old_val
    /\ r.new_values = a.new_val

\* C19 as the spec states it: a tracked block whose two captured states
\* differ appends exactly one UPDATE entry with those states, and a block
\* that raised or whose states are equal appends nothing.
C19_TrackLogsOne ==
    [][\A p \in Procs :
          (tracked[p] /\ pc[p] # "idle" /\ pc'[p] = "idle") =>
              IF pc[p] = "block"
              THEN store' = store
              ELSE /\ Len(store') = Len(store) + 1
                   /\ SubSeq(store', 1, Len(store)) = store
                   /\ IsTrackedEntry(store'[Len(store')], args[p])]_vars

\* C19 (track_changes logging rule): a tracked block calls log_change, and
\* only once, exactly when it exits normally and the two captured states
\* differ, with action UPDATE and old/new the captured states; that call
\* appends exactly one such entry unless it raises, and then nothing is
\* appended; a block that raises or whose states are equal makes no call
\* and appends nothing.
C19_TrackRule ==
    [][\A p \in Procs :
          LET a == args[p]
              new_val == GetCurrentState(a.resource_type, a.resource_id)
          IN  /\ (pc[p] = "block" /\ pc'[p] # "block") =>
                    /\ store' = store
                    /\ \/ pc'[p] = "idle" /\ result'[p] = "BlockError"
                       \/ /\ pc'[p] = "idle"
                          /\ result'[p] = "nochange"
                          /\ a.old_val = new_val
                       \/ /\ pc'[p] = "conn"
                          /\ a.old_val # new_val
                          /\ tracked'[p]
                          /\ args'[p] = Call(a.actor_id, "UPDATE", a.resource_type,
                                             a.resource_id, a.old_val, new_val)
              /\ (tracked[p] /\ pc[p] \in InLogChange /\ pc'[p] = "idle") =>
                    /\ ~tracked'[p]
                    /\ \/ result'[p] \in Errors /\ store' = store
                       \/ /\ result'[p] = "ok"
                          /\ Len(store') = Len(store) + 1
                          /\ SubSeq(store', 1, Len(store)) = store
                          /\ IsTrackedEntry(store'[Len(store')], a)
              /\ (tracked'[p] /\ pc'[p] = "conn" /\ pc[p] # "conn") => pc[p] = "block"]_vars

\* a tracked block has appended its UPDATE entry (no direct call of Args
\* is an UPDATE from no state) and another has found nothing changed
C19_Witness ==
    /\ \E r \in Rows(store) :
          r.action = "UPDATE" /\ r.old_values = None /\ r.new_values = "{status:draft}"
    /\ \E p \in Procs : result[p] = "nochange"
====
